---- MODULE Spec2Model ----
(***************************************************************************)
(* libnss-netns: network namespaces resolved like host names.              *)
(*                                                                         *)
(* The module is stateless: every hook spawns `ip`, reads its standard     *)
(* output and computes a response.  The state of the model is therefore    *)
(* what the two `ip` invocations would produce right now (netns_out,       *)
(* addr_out) together with the last hook that was called and its response. *)
(***************************************************************************)
EXTENDS Naturals, Sequences, FiniteSets, TLC

VARIABLES
    netns_out,  \* what `ip -json netns ls` produces
    addr_out,   \* per namespace name, what `ip -json -n <name> address` produces
    op,         \* the hook called last
    arg,        \* its arguments
    resp        \* its response

vars == <<netns_out, addr_out, op, arg, resp>>

----------------------------------------------------------------------------
(* Bounds of the model.                                                    *)

\* one namespace seen in depth: at most MaxLinks interface objects in its
\* array, carrying at most MaxAddrs address objects between them
MaxLinks == 1
MaxAddrs == 2

\* names a caller may ask for; every one of them may or may not be a namespace
NsNames == {"blue", "red"}

\* a JSON field that is missing or has the wrong JSON type
Absent == "<absent>"

----------------------------------------------------------------------------
(* JSON values printed by `ip`, and the serde structures they are read to. *)

RECURSIVE SeqsUpTo(_, _)
SeqsUpTo(S, n) ==
    IF n = 0 THEN {<<>>}
    ELSE LET shorter == SeqsUpTo(S, n - 1)
         IN  shorter \cup {Append(s, x) : s \in {t \in shorter : Len(t) = n - 1}, x \in S}

RECURSIVE Flatten(_)
Flatten(ss) == IF ss = <<>> THEN <<>> ELSE Head(ss) \o Flatten(Tail(ss))

Range(s) == {s[i] : i \in 1..Len(s)}

\* struct LinkAddress: serde reads an object when all three fields are strings
LinkAddress(j) ==
    IF j.family # Absent /\ j.local # Absent /\ j.scope # Absent
    THEN [ok |-> TRUE, value |-> j]
    ELSE [ok |-> FALSE, value |-> j]

\* a reader that would drop the address objects it cannot read and keep the
\* interface (what the code does not do)
LinkInfoLenient(j) ==
    IF j.link_type # Absent
    THEN [ok |-> TRUE,
          value |-> [j EXCEPT !.addr_info =
                        SelectSeq(j.addr_info, LAMBDA a : LinkAddress(a).ok)]]
    ELSE [ok |-> FALSE, value |-> j]

\* struct LinkInfo: link_type is a string and every element of addr_info is a
\* LinkAddress; one element that is not fails the whole interface object
LinkInfo(j) ==
    IF j.link_type # Absent /\ \A i \in 1..Len(j.addr_info) : LinkAddress(j.addr_info[i]).ok
    THEN [ok |-> TRUE, value |-> j]
    ELSE [ok |-> FALSE, value |-> j]

\* struct Netns
Netns(j) ==
    IF j.name # Absent THEN [ok |-> TRUE, value |-> j] ELSE [ok |-> FALSE, value |-> j]

----------------------------------------------------------------------------
(* What a spawned `ip` hands back: std::process::Command::output().        *)
(* spawn = FALSE is the Err of output() (the tool cannot be started);      *)
(* otherwise the exit status and the bytes of standard output.  The bytes  *)
(* are valid UTF-8 or not, the text is JSON or not, the JSON value is an   *)
(* array (arr holds its elements) or something else.                       *)

Output(status, arr) ==
    [spawn |-> TRUE, status |-> status, utf8 |-> TRUE, json |-> "array", arr |-> arr]

\* the tool is not installed
ToolMissing == [spawn |-> FALSE, status |-> 0, utf8 |-> TRUE, json |-> "invalid", arr |-> <<>>]
\* the tool exits with an error and prints nothing (a namespace that is gone)
ExitEmpty == [spawn |-> TRUE, status |-> 1, utf8 |-> TRUE, json |-> "invalid", arr |-> <<>>]
\* the bytes printed are not UTF-8
NonUtf8 == [spawn |-> TRUE, status |-> 0, utf8 |-> FALSE, json |-> "invalid", arr |-> <<>>]
\* the text printed is JSON, but an object and not an array
NotArray == [spawn |-> TRUE, status |-> 0, utf8 |-> TRUE, json |-> "object", arr |-> <<>>]

Failures == {ToolMissing, ExitEmpty, NonUtf8, NotArray}

Ok(v) == [ok |-> TRUE, value |-> v]
Err == [ok |-> FALSE, value |-> <<>>]

\* the interface objects serde reads as LinkInfo, in order; the others are
\* logged and skipped (map, then filter_map)
RECURSIVE LinkInfos(_)
LinkInfos(arr) ==
    IF arr = <<>> THEN <<>>
    ELSE LET link_info == LinkInfo(Head(arr))
         IN  (IF link_info.ok THEN <<link_info.value>> ELSE <<>>) \o LinkInfos(Tail(arr))

ip_addr(out) ==
    IF ~out.spawn THEN Err
    ELSE IF ~out.utf8 THEN Err
    ELSE IF out.json = "invalid" THEN Err
    ELSE IF out.json # "array" THEN Err
    ELSE Ok(LinkInfos(out.arr))

\* the names of the namespace objects serde reads as Netns, in order; the
\* others are logged and skipped
RECURSIVE NsNamesOf(_)
NsNamesOf(arr) ==
    IF arr = <<>> THEN <<>>
    ELSE LET ns == Netns(Head(arr))
         IN  (IF ns.ok THEN <<ns.value.name>> ELSE <<>>) \o NsNamesOf(Tail(arr))

ip_netns_ls(out) ==
    IF ~out.spawn THEN Err
    ELSE IF ~out.utf8 THEN Err
    ELSE IF out.json = "invalid" THEN Err
    ELSE IF out.json # "array" THEN Err
    ELSE Ok(NsNamesOf(out.arr))

----------------------------------------------------------------------------
(* Addresses.  str::parse::<IpAddr>() reads a literal as an IPv4 or an     *)
(* IPv6 address, or fails.                                                 *)

V4Literal == "10.0.0.5"
V6Literal == "fd00::1"
NoLiteral == "bogus"
Literals == {V4Literal, V6Literal, NoLiteral}

Addr4 == [v |-> "V4", bits |-> <<10, 0, 0, 5>>]
Addr6 == [v |-> "V6", bits |-> <<64768, 0, 0, 0, 0, 0, 0, 1>>]
\* an address no interface of the model carries
Addr4Other == [v |-> "V4", bits |-> <<10, 0, 0, 9>>]
IpAddrs == {Addr4, Addr6, Addr4Other}

ParseIpAddr(lit) ==
    CASE lit = V4Literal -> Ok(Addr4)
      [] lit = V6Literal -> Ok(Addr6)
      [] OTHER -> Err

Families == {"IPv4", "IPv6", "Unspecified"}

----------------------------------------------------------------------------
(* Responses: libnss::interop::Response.  A hook that panics returns       *)
(* nothing; the model records that as the status "Panic".                  *)

Success(hosts) == [status |-> "Success", hosts |-> hosts]
NotFound == [status |-> "NotFound", hosts |-> <<>>]
Unavail == [status |-> "Unavail", hosts |-> <<>>]
Panic == [status |-> "Panic", hosts |-> <<>>]

Host(name, v, addresses) ==
    [name |-> name, aliases |-> <<>>, addresses |-> [v |-> v, list |-> addresses]]

----------------------------------------------------------------------------
(* NsHost::get_host_by_name                                                *)

af_filter(family) == IF family = "IPv6" THEN "inet6" ELSE "inet"

\* without the loopback filter
AnyLinkType(info) == TRUE

NotLoopback(info) == info.link_type # "loopback"

FamilyFilter(addr, family) == addr.family = af_filter(family)

\* without the scope filter
AnyScope(addr) == TRUE

ScopeFilter(addr) == addr.scope # "link"

Keep(addr, family) == FamilyFilter(addr, family) /\ ScopeFilter(addr)

\* the address records of the interfaces that pass the filters, in order
RECURSIVE SelectAddrs(_, _)
SelectAddrs(addrs, family) ==
    IF addrs = <<>> THEN <<>>
    ELSE (IF Keep(Head(addrs), family) THEN <<Head(addrs)>> ELSE <<>>)
         \o SelectAddrs(Tail(addrs), family)

RECURSIVE Surviving(_, _)
Surviving(infos, family) ==
    IF infos = <<>> THEN <<>>
    ELSE (IF NotLoopback(Head(infos)) THEN SelectAddrs(Head(infos).addr_info, family) ELSE <<>>)
         \o Surviving(Tail(infos), family)

\* the variant the second match expects
Variant(family) == IF family = "IPv6" THEN "V6" ELSE "V4"

\* without the is_empty() test
HostAlways(name, family, addresses) ==
    [status |-> "Success",
     hosts |-> <<[name |-> name, aliases |-> <<>>,
                  addresses |-> [v |-> IF family = "IPv6" THEN "V6" ELSE "V4",
                                 list |-> addresses]]>>]

\* empty list: NotFound; else the host record
HostOrNotFound(name, family, addresses) ==
    IF addresses = <<>> THEN NotFound
    ELSE Success(<<Host(name, Variant(family), addresses)>>)

get_host_by_name(name, family) ==
    LET result == ip_addr(addr_out[name]) IN
    IF ~result.ok THEN NotFound
    ELSE
      LET records == Surviving(result.value, family)
          parsed == [i \in 1..Len(records) |-> ParseIpAddr(records[i].local)]
      IN  IF \E i \in 1..Len(parsed) : ~parsed[i].ok
          THEN Panic     \* expect("not an IP address")
          ELSE IF \E i \in 1..Len(parsed) : parsed[i].value.v # Variant(family)
          THEN Panic     \* unreachable!()
          ELSE HostOrNotFound(name, family,
                              [i \in 1..Len(parsed) |-> parsed[i].value.bits])

----------------------------------------------------------------------------
(* NsHost::get_all_entries                                                 *)

get_for_ns(name) ==
    LET recv4 == get_host_by_name(name, "IPv4")
        recv6 == get_host_by_name(name, "IPv6")
    IN  IF recv4.status = "Panic" \/ recv6.status = "Panic" THEN Panic
        ELSE Success((IF recv4.status = "Success" THEN recv4.hosts ELSE <<>>)
                     \o (IF recv6.status = "Success" THEN recv6.hosts ELSE <<>>))

get_all_entries ==
    LET ns_names == ip_netns_ls(netns_out) IN
    IF ~ns_names.ok THEN Unavail
    ELSE
      LET per_ns == [i \in 1..Len(ns_names.value) |-> get_for_ns(ns_names.value[i])]
      IN  IF \E i \in 1..Len(per_ns) : per_ns[i].status = "Panic" THEN Panic
          ELSE Success(Flatten([i \in 1..Len(per_ns) |-> per_ns[i].hosts]))

----------------------------------------------------------------------------
(* NsHost::get_host_by_addr                                                *)

\* the closure of filter_map: the entry is kept when it is of addr's family
\* and lists addr
Matches(host, addr) ==
    /\ host.addresses.v = addr.v
    /\ addr.bits \in Range(host.addresses.list)

\* the last matching entry instead of the first
RECURSIVE LastMatch(_, _)
LastMatch(hosts, addr) ==
    IF hosts = <<>> THEN NotFound
    ELSE IF Matches(hosts[Len(hosts)], addr) THEN Success(<<hosts[Len(hosts)]>>)
    ELSE LastMatch(SubSeq(hosts, 1, Len(hosts) - 1), addr)

RECURSIVE FirstMatch(_, _)
FirstMatch(hosts, addr) ==
    IF hosts = <<>> THEN NotFound
    ELSE IF Matches(Head(hosts), addr) THEN Success(<<Head(hosts)>>)
    ELSE FirstMatch(Tail(hosts), addr)

get_host_by_addr(addr) ==
    LET all_entries_response == get_all_entries IN
    IF all_entries_response.status = "Success"
    THEN FirstMatch(all_entries_response.hosts, addr)
    ELSE IF all_entries_response.status = "Panic" THEN Panic
    ELSE Unavail

----------------------------------------------------------------------------
(* What `ip` may print.                                                    *)

\* address-info objects: every family, literal and scope, and one object
\* that lacks a field
AddrElems ==
    [family : {"inet", "inet6"}, local : Literals, scope : {"global", "link"}]
    \cup {[family |-> "inet", local |-> V4Literal, scope |-> Absent]}

\* interface objects with at most n addresses: a loopback or another
\* interface, or an object without a link type
LinkElems(n) ==
    [link_type : {"loopback", "ether"}, addr_info : SeqsUpTo(AddrElems, n)]
    \cup {[link_type |-> Absent, addr_info |-> <<>>]}

NetnsElems == [name : NsNames \cup {Absent}]

\* interface arrays of at most l interfaces that carry at most n addresses
\* between them
RECURSIVE LinkArraysOf(_, _)
LinkArraysOf(l, n) ==
    IF l = 0 THEN {<<>>}
    ELSE {<<>>} \cup
         UNION {{<<e>> \o rest : rest \in LinkArraysOf(l - 1, n - Len(e.addr_info))} :
                e \in LinkElems(n)}

LinkArrays == LinkArraysOf(MaxLinks, MaxAddrs)

AddrOutputs == Failures \cup {Output(st, a) : st \in {0, 1}, a \in LinkArrays}

NetnsArrays == SeqsUpTo(NetnsElems, Cardinality(NsNames))

NetnsOutputs == Failures \cup {Output(st, a) : st \in {0, 1}, a \in NetnsArrays}

\* a namespace seen in breadth: gone, or one interface with one address
SmallOutputs ==
    {ExitEmpty} \cup {Output(0, a) : a \in LinkArraysOf(1, 1)}

\* One namespace in depth: it is listed, its interfaces are any array of the
\* bounds, and no other name is a namespace.
InDepth ==
    /\ netns_out = Output(0, <<[name |-> "blue"]>>)
    /\ \E out \in AddrOutputs :
           addr_out = [n \in NsNames |-> IF n = "blue" THEN out ELSE ExitEmpty]

\* Several namespaces in breadth: any listing, and small interface arrays.
InBreadth ==
    /\ netns_out \in NetnsOutputs
    /\ addr_out \in [NsNames -> SmallOutputs]

----------------------------------------------------------------------------
(* The state machine: the hooks of libnss_host_hooks!(netns, NsHost).      *)

NoArg == [name |-> "-", family |-> "-", addr |-> [v |-> "-", bits |-> <<>>]]
NoResp == [status |-> "None", hosts |-> <<>>]

Init ==
    /\ InDepth \/ InBreadth
    /\ op = "none"
    /\ arg = NoArg
    /\ resp = NoResp

\* The resolver calls one hook at a time and takes its response before the
\* next call (single-threaded, synchronous); op = "none" between calls.
GetHostByName ==
    /\ op = "none"
    /\ \E name \in NsNames, family \in Families :
        /\ op' = "get_host_by_name"
        /\ arg' = [NoArg EXCEPT !.name = name, !.family = family]
        /\ resp' = get_host_by_name(name, family)
    /\ UNCHANGED <<netns_out, addr_out>>

GetAllEntries ==
    /\ op = "none"
    /\ op' = "get_all_entries"
    /\ arg' = NoArg
    /\ resp' = get_all_entries
    /\ UNCHANGED <<netns_out, addr_out>>

GetHostByAddr ==
    /\ op = "none"
    /\ \E addr \in IpAddrs :
        /\ op' = "get_host_by_addr"
        /\ arg' = [NoArg EXCEPT !.addr = addr]
        /\ resp' = get_host_by_addr(addr)
    /\ UNCHANGED <<netns_out, addr_out>>

\* the response is handed to the resolver; nothing of the call is kept
Return ==
    /\ op # "none"
    /\ op' = "none"
    /\ arg' = NoArg
    /\ resp' = NoResp
    /\ UNCHANGED <<netns_out, addr_out>>

Next == GetHostByName \/ GetAllEntries \/ GetHostByAddr \/ Return

Spec == Init /\ [][Next]_vars

----------------------------------------------------------------------------
(* Vocabulary of the properties.                                           *)

\* the interface records of namespace n: what ip_addr hands to the resolver
Listed(n) == ip_addr(addr_out[n])

Tag(F) == IF F = "IPv4" THEN "inet" ELSE "inet6"

\* positions <<i, k>> of the address records of n's interface records
Records(n) ==
    IF ~Listed(n).ok THEN {}
    ELSE UNION {{<<i, k>> : k \in 1..Len(Listed(n).value[i].addr_info)} :
                i \in 1..Len(Listed(n).value)}

Link(n, p) == Listed(n).value[p[1]]
Rec(n, p) == Listed(n).value[p[1]].addr_info[p[2]]

\* the records of family F on a non-loopback interface with a scope other
\* than link
Qualifying(n, F) ==
    {p \in Records(n) : /\ Link(n, p).link_type # "loopback"
                        /\ Rec(n, p).scope # "link"
                        /\ Rec(n, p).family = Tag(F)}

\* the addresses of a returned entry, as tagged values
AddrSet(h) == {[v |-> h.addresses.v, bits |-> b] : b \in Range(h.addresses.list)}

Forward == op = "get_host_by_name" /\ arg.family \in {"IPv4", "IPv6"}

----------------------------------------------------------------------------
(* C1.  For a namespace N and a family F of V4, V6: when the interface     *)
(* listing of N holds at least one record of family F on a non-loopback    *)
(* interface with a scope other than link, get_host_by_name(N, F) returns  *)
(* Success with name N, no aliases and, as a set, exactly the addresses of *)
(* those records.                                                          *)
C1_ForwardReturnsQualifying ==
    (Forward /\ Qualifying(arg.name, arg.family) # {}) =>
        /\ resp.status = "Success"
        /\ Len(resp.hosts) = 1
        /\ resp.hosts[1].name = arg.name
        /\ resp.hosts[1].aliases = <<>>
        /\ resp.hosts[1].addresses.v = (IF arg.family = "IPv4" THEN "V4" ELSE "V6")
        /\ AddrSet(resp.hosts[1]) =
               {ParseIpAddr(Rec(arg.name, p).local).value :
                    p \in Qualifying(arg.name, arg.family)}

(* C2.  No hook returns an entry without addresses: get_host_by_name(N, F) *)
(* returns NotFound whenever N has no qualifying record of family F, and   *)
(* every entry of any response lists at least one address.                 *)
C2_NoEmptyEntry ==
    /\ \A i \in 1..Len(resp.hosts) : resp.hosts[i].addresses.list # <<>>
    /\ (Forward /\ Qualifying(arg.name, arg.family) = {}) => resp = NotFound

\* a lookup answered NotFound although the namespace lists addresses of the
\* family, all of them on a loopback interface or link-scoped
C2_Witness ==
    /\ Forward
    /\ resp = NotFound
    /\ Qualifying(arg.name, arg.family) = {}
    /\ \E p \in Records(arg.name) : Rec(arg.name, p).family = Tag(arg.family)

(* C3.  No returned entry holds a loopback address: every address of every *)
(* entry of every response is carried by a record of a non-loopback        *)
(* interface of the entry's namespace.                                     *)
C3_NoLoopbackAddress ==
    \A i \in 1..Len(resp.hosts) :
        \A a \in AddrSet(resp.hosts[i]) :
            \E p \in Records(resp.hosts[i].name) :
                /\ Link(resp.hosts[i].name, p).link_type # "loopback"
                /\ ParseIpAddr(Rec(resp.hosts[i].name, p).local) = Ok(a)

\* an enumeration that returned entries while a listed namespace has a
\* loopback interface with an address that is not link-scoped
C3_Witness ==
    /\ op = "get_all_entries"
    /\ resp.status = "Success"
    /\ resp.hosts # <<>>
    /\ \E n \in Range(ip_netns_ls(netns_out).value) :
           \E p \in Records(n) :
               /\ Link(n, p).link_type = "loopback"
               /\ Rec(n, p).scope # "link"
               /\ ParseIpAddr(Rec(n, p).local).ok

(* C4.  No returned entry holds a link-scoped address: every address of    *)
(* every entry of every response is carried by a record whose scope is not *)
(* link.                                                                   *)
C4_NoLinkScopedAddress ==
    \A i \in 1..Len(resp.hosts) :
        \A a \in AddrSet(resp.hosts[i]) :
            \E p \in Records(resp.hosts[i].name) :
                /\ Rec(resp.hosts[i].name, p).scope # "link"
                /\ ParseIpAddr(Rec(resp.hosts[i].name, p).local) = Ok(a)

\* a lookup that succeeded on a namespace with a link-scoped record of the
\* family on a non-loopback interface
C4_Witness ==
    /\ Forward
    /\ resp.status = "Success"
    /\ \E p \in Records(arg.name) :
           /\ Link(arg.name, p).link_type # "loopback"
           /\ Rec(arg.name, p).scope = "link"
           /\ Rec(arg.name, p).family = Tag(arg.family)

\* the names ip_netns_ls returns
Names == ip_netns_ls(netns_out).value

\* the entries of one namespace: its V4 entry if the V4 lookup succeeds, then
\* its V6 entry if the V6 lookup succeeds
EntriesOf(n) ==
    (IF get_host_by_name(n, "IPv4").status = "Success"
     THEN get_host_by_name(n, "IPv4").hosts ELSE <<>>)
    \o (IF get_host_by_name(n, "IPv6").status = "Success"
        THEN get_host_by_name(n, "IPv6").hosts ELSE <<>>)

(* C5.  When the namespace listing succeeds, get_all_entries returns the   *)
(* concatenation, over the namespaces in listed order, of each namespace's *)
(* V4 entry (iff its V4 lookup succeeds) followed by its V6 entry (iff its *)
(* V6 lookup succeeds).                                                    *)
C5_EnumerationIsConcatenation ==
    (op = "get_all_entries" /\ ip_netns_ls(netns_out).ok) =>
        /\ resp.status = "Success"
        /\ resp.hosts = Flatten([i \in 1..Len(Names) |-> EntriesOf(Names[i])])

\* the enumerated entries of addr's family that list addr, by position
Matching(entries, addr) ==
    {i \in 1..Len(entries) : /\ entries[i].addresses.v = addr.v
                             /\ \E k \in 1..Len(entries[i].addresses.list) :
                                    entries[i].addresses.list[k] = addr.bits}

NetnsInvocationFailed ==
    \/ ~netns_out.spawn
    \/ netns_out.status # 0
    \/ ~netns_out.utf8
    \/ netns_out.json # "array"

(* C7.  Whenever the namespace-listing invocation fails (tool missing,     *)
(* non-zero exit, non-UTF-8 output, top level not a JSON array),           *)
(* get_all_entries and get_host_by_addr return Unavail, and                *)
(* get_host_by_name returns what the interface listing alone determines.   *)
C7_ListingFailureIsUnavail ==
    NetnsInvocationFailed =>
        /\ op \in {"get_all_entries", "get_host_by_addr"} => resp = Unavail
        /\ op = "get_host_by_name" => resp = get_host_by_name(arg.name, arg.family)

\* raw interface objects of n's output with a qualifying, readable address
\* object of family F next to an address object that lacks a field
MixedInterfaces(n, F) ==
    IF ~Listed(n).ok THEN {}
    ELSE {i \in 1..Len(addr_out[n].arr) :
            LET j == addr_out[n].arr[i] IN
            /\ j.link_type \notin {Absent, "loopback"}
            /\ \E k \in 1..Len(j.addr_info) : ~LinkAddress(j.addr_info[k]).ok
            /\ \E k \in 1..Len(j.addr_info) :
                   /\ LinkAddress(j.addr_info[k]).ok
                   /\ j.addr_info[k].family = Tag(F)
                   /\ j.addr_info[k].scope # "link"
                   /\ ParseIpAddr(j.addr_info[k].local).ok
                   /\ ParseIpAddr(j.addr_info[k].local).value.v = Variant(F)}

(* C8.  If the address list of a non-loopback interface holds one          *)
(* well-formed qualifying address object of family F and one malformed     *)
(* address object, get_host_by_name(N, F) still returns Success with the   *)
(* well-formed object's address; the malformed object alone is skipped.    *)
C8_MalformedAddressAloneSkipped ==
    (Forward /\ MixedInterfaces(arg.name, arg.family) # {}) =>
        /\ resp.status = "Success"
        /\ \A i \in MixedInterfaces(arg.name, arg.family) :
             \A k \in 1..Len(addr_out[arg.name].arr[i].addr_info) :
               LET a == addr_out[arg.name].arr[i].addr_info[k] IN
               (LinkAddress(a).ok /\ a.family = Tag(arg.family) /\ a.scope # "link")
                   => ParseIpAddr(a.local).value \in AddrSet(resp.hosts[1])

\* the raw interface objects of n that serde reads: a link type, and every
\* address object with its three fields
Readable(n) ==
    {i \in 1..Len(addr_out[n].arr) :
        /\ addr_out[n].arr[i].link_type # Absent
        /\ \A k \in 1..Len(addr_out[n].arr[i].addr_info) :
               /\ addr_out[n].arr[i].addr_info[k].family # Absent
               /\ addr_out[n].arr[i].addr_info[k].local # Absent
               /\ addr_out[n].arr[i].addr_info[k].scope # Absent}

(* C8, amended.  One malformed address object makes the whole interface    *)
(* object unreadable: the interface is skipped with all its addresses, the *)
(* well-formed ones included.  Every address get_host_by_name returns is   *)
(* carried by an interface object all of whose address objects are         *)
(* well-formed, and the lookup returns NotFound when no interface object   *)
(* of the array is readable.                                               *)
C8_MalformedAddressSkipsInterface ==
    Forward =>
        /\ resp.status = "Success" =>
             \A a \in AddrSet(resp.hosts[1]) :
                 \E i \in Readable(arg.name) :
                     \E k \in 1..Len(addr_out[arg.name].arr[i].addr_info) :
                         ParseIpAddr(addr_out[arg.name].arr[i].addr_info[k].local) = Ok(a)
        /\ Readable(arg.name) = {} => resp = NotFound

\* a lookup answered NotFound for an interface that holds a qualifying
\* well-formed address object next to a malformed one
C8_Witness ==
    /\ Forward
    /\ MixedInterfaces(arg.name, arg.family) # {}
    /\ resp = NotFound

\* the qualifying records whose literal reads as an address of family F
Parsable(n, F) ==
    {p \in Qualifying(n, F) : /\ ParseIpAddr(Rec(n, p).local).ok
                              /\ ParseIpAddr(Rec(n, p).local).value.v = Variant(F)}

(* C9.  A record that passes the loopback, scope and family filters and    *)
(* whose literal does not read as an address of its declared family is     *)
(* dropped alone: get_host_by_name(N, F) completes, with Success and the   *)
(* remaining qualifying addresses, or NotFound when none remains.          *)
C9_BadLiteralDropped ==
    (Forward /\ Listed(arg.name).ok) =>
        /\ resp.status \in {"Success", "NotFound"}
        /\ resp.status = "NotFound" <=> Parsable(arg.name, arg.family) = {}
        /\ resp.status = "Success" =>
               AddrSet(resp.hosts[1]) =
                   {ParseIpAddr(Rec(arg.name, p).local).value :
                        p \in Parsable(arg.name, arg.family)}

\* the listed namespaces whose interface listing fails
Uninspectable == {i \in 1..Len(Names) : ~Listed(Names[i]).ok}

(* C10.  A failure of the interface listing of one namespace makes         *)
(* get_host_by_name return NotFound for it; in get_all_entries a listed    *)
(* namespace whose inspection fails contributes no entry, the entries of   *)
(* the other namespaces are returned in order and the outcome is Success;  *)
(* Unavail arises only when the namespace list cannot be obtained.         *)
C10_InspectionFailureIsAMiss ==
    /\ (op = "get_host_by_name" /\ ~Listed(arg.name).ok) => resp = NotFound
    /\ (op = "get_all_entries" /\ ip_netns_ls(netns_out).ok /\ Uninspectable # {}) =>
          /\ resp.status = "Success"
          /\ \A i \in Uninspectable :
                 \A k \in 1..Len(resp.hosts) : resp.hosts[k].name # Names[i]
          /\ resp.hosts =
                 Flatten([i \in 1..Len(Names) |->
                            IF i \in Uninspectable THEN <<>> ELSE EntriesOf(Names[i])])
    /\ (op = "get_host_by_addr" /\ ip_netns_ls(netns_out).ok /\ Uninspectable # {}) =>
          resp.status \in {"Success", "NotFound"}
    /\ resp.status = "Unavail" => ~ip_netns_ls(netns_out).ok

====
